---- MODULE Spec2Model ----
(***************************************************************************)
(* State-machine model of homework.py: a bot that polls the homework       *)
(* review API, maps the first homework record to a message and forwards    *)
(* it to a Telegram chat, remembering the last text it sent.               *)
(*                                                                         *)
(* Texts are the source's f-strings, transliterated to ASCII.  Python      *)
(* values are modelled by records: a JSON payload by its shape and its     *)
(* fields, an exception by its class name and str().                       *)
(***************************************************************************)
EXTENDS Integers, Sequences, FiniteSets, TLC

(* ------------------------------ bounds -------------------------------- *)

\* Timestamps (time.time() at start-up, current_date of a response) range
\* over 0..MaxTime.
MaxTime == 1

(* --------------------------- python values ---------------------------- *)

\* Python's None, as the value of an unset environment variable or local.
None == "<None>"

\* A current_date of JSON null: response.get returns None for it.
NullDate == -1

Timestamps == 0..MaxTime
DateValues == Timestamps \cup {NullDate}

\* os.getenv gives None for an unset variable, else its (maybe empty) text.
EnvValues == {None, "", "secret"}

\* bool(value) of an environment value, as all([...]) takes it.
Truthy(value) == value # None /\ value # ""

(* ----------------------------- constants ------------------------------ *)

RETRY_PERIOD == 600

ENDPOINT == "https://practicum.yandex.ru/api/user_api/homework_statuses/"

HTTP_OK == 200

\* HOMEWORK_VERDICTS with the phrases of two keys exchanged.
HOMEWORK_VERDICTS_Swapped ==
    ("approved" :> "Rabota proverena: rev'jueru vsjo ponravilos'. Ura!") @@
    ("reviewing" :> "Rabota proverena: u rev'juera est' zamechanija.") @@
    ("rejected" :> "Rabota vzjata na proverku rev'juerom.")

HOMEWORK_VERDICTS ==
    ("approved" :> "Rabota proverena: rev'jueru vsjo ponravilos'. Ura!") @@
    ("reviewing" :> "Rabota vzjata na proverku rev'juerom.") @@
    ("rejected" :> "Rabota proverena: u rev'juera est' zamechanija.")

(* ------------------------ results and exceptions ---------------------- *)

\* str(error) of an exception built as Class(message): KeyError gives the
\* repr of its argument, the other classes (the built-in ones, and the
\* plain Exception subclasses of the exceptions module) the argument.
ExcStr(kind, text) ==
    IF kind = "KeyError" THEN "'" \o text \o "'" ELSE text

\* What a call does: it returns val, or raises kind(text) (val is then a
\* placeholder of the type the call returns).
Return(val) == [ok |-> TRUE, kind |-> "", text |-> "", val |-> val]
Raise(kind, text, val) ==
    [ok |-> FALSE, kind |-> kind, text |-> ExcStr(kind, text), val |-> val]

(* ------------------------------ inputs -------------------------------- *)

HomeworkNames == {"hw1", "hw2"}
Statuses == {"approved", "reviewing", "rejected", "pending", "bogus"}

\* A homework record: a JSON object that may lack either key.
Homework(hasName, name, hasStatus, status) ==
    [hasName |-> hasName, homework_name |-> name,
     hasStatus |-> hasStatus, status |-> status]

Homeworks ==
    {Homework(TRUE, n, TRUE, s) : n \in HomeworkNames, s \in Statuses}
    \cup {Homework(FALSE, "", TRUE, s) : s \in {"approved"}}
    \cup {Homework(TRUE, n, FALSE, "") : n \in {"hw1"}}
    \cup {Homework(FALSE, "", FALSE, "")}

\* What may follow the first record of a homeworks list.
Tails ==
    {<<>>,
     <<Homework(TRUE, "hw2", TRUE, "rejected")>>,
     <<Homework(TRUE, "hw1", TRUE, "bogus")>>,
     <<Homework(FALSE, "", FALSE, "")>>}

HomeworkLists == {<<>>} \cup {<<h>> \o t : h \in Homeworks, t \in Tails}

\* A parsed JSON payload.  isDict FALSE: a JSON list.  homeworksIsList
\* FALSE: the key holds JSON null.
Payload(isDict, hasHomeworks, isList, homeworks, hasDate, date) ==
    [isDict |-> isDict, hasHomeworks |-> hasHomeworks,
     homeworksIsList |-> isList, homeworks |-> homeworks,
     hasDate |-> hasDate, current_date |-> date]

NoPayload == Payload(FALSE, FALSE, FALSE, <<>>, FALSE, 0)

DateFields == {<<FALSE, 0>>} \cup {<<TRUE, d>> : d \in DateValues}

Payloads ==
    {NoPayload}
    \cup {Payload(TRUE, FALSE, FALSE, <<>>, d[1], d[2]) : d \in DateFields}
    \cup {Payload(TRUE, TRUE, FALSE, <<>>, d[1], d[2]) : d \in DateFields}
    \cup {Payload(TRUE, TRUE, TRUE, l, d[1], d[2]) :
              l \in HomeworkLists, d \in DateFields}

\* Non-200 answers of the endpoint, and the ways the transport fails.
BadStatusCodes == {503}
Bodies == {"down", "busy"}
RequestErrors == {"Read timed out."}
SendErrors == {"Timed out"}

(* ------------------------------ variables ----------------------------- *)

VARIABLES
    env,                  \* PRACTICUM_TOKEN, TELEGRAM_TOKEN, TELEGRAM_CHAT_ID
    pc,                   \* position of main()
    timestamp,            \* main's poll window
    old_status_homework,  \* main's last notification
    response,             \* main's local: the fetched payload
    homeworks,            \* main's local: the validated list
    message,              \* main's local: the text to send
    error,                \* the exception being handled
    raised,               \* an exception is propagating out of the handler
    cyc,                  \* log of the current cycle
    prev                  \* log of the previous cycle

vars == <<env, pc, timestamp, old_status_homework, response, homeworks,
          message, error, raised, cyc, prev>>

NoError == [kind |-> "", text |-> ""]

\* The log of a cycle that starts with poll window ts and last
\* notification last.
NewCycle(ran, ts, last) ==
    [ran |-> ran,            \* FALSE: no cycle (the log before the first one)
     ts0 |-> ts,             \* timestamp when the cycle began
     last0 |-> last,         \* old_status_homework when the cycle began
     fetched |-> "no",       \* get_api_answer: "no", "ok" or "err"
     isDict |-> FALSE,       \* shape of the fetched payload
     hasDate |-> FALSE,
     date |-> 0,
     checked |-> "no",       \* check_response: "no", "ok" or "err"
     parsed |-> <<>>,        \* the records handed to parse_status
     produced |-> None,      \* the message the try block built
     calls |-> <<>>,         \* the send_message calls, in order
     failure |-> NoError,    \* the exception the except clause caught
     notice |-> None,        \* the failure message the except clause built
     sleeps |-> <<>>]        \* the time.sleep calls, by duration

\* What is kept of a cycle's log once the next cycle has begun.
Summary(c) ==
    [ran |-> c.ran, produced |-> c.produced, notice |-> c.notice,
     calls |-> c.calls]

Call(text, ok, handler) == [text |-> text, ok |-> ok, handler |-> handler]

(* ------------------------------ functions ----------------------------- *)

\* check_tokens() with any() for all().
check_tokens_any ==
    \/ Truthy(env.PRACTICUM_TOKEN)
    \/ Truthy(env.TELEGRAM_TOKEN)
    \/ Truthy(env.TELEGRAM_CHAT_ID)

\* check_tokens(): all three environment values are truthy.
check_tokens ==
    /\ Truthy(env.PRACTICUM_TOKEN)
    /\ Truthy(env.TELEGRAM_TOKEN)
    /\ Truthy(env.TELEGRAM_CHAT_ID)

\* response.url: requests appends the params, dropping those that are None.
RequestUrl(ts) ==
    IF ts = NullDate THEN ENDPOINT
    ELSE ENDPOINT \o "?from_date=" \o ToString(ts)

\* HttpResponseError does not derive from requests' RequestException, so
\* the except clause of get_api_answer lets it through.
HttpResponseErrorIsRequestException == FALSE

ConnectionErrorText(cause) ==
    "Endpoint " \o ENDPOINT \o ", nedostupen! Oshibka: " \o cause \o "."

\* str() of the 3-tuple HttpResponseError is built with.
HttpErrorText(ts, code, body) ==
    "('Parametry zaprosa: " \o RequestUrl(ts) \o "', "
    \o "'Status otveta API: " \o ToString(code) \o "', "
    \o "'Kontent otveta: " \o body \o "')"

\* get_api_answer(timestamp): the outcomes the endpoint can cause.
get_api_answer(ts) ==
    {Raise("ConnectionError", ConnectionErrorText(e), NoPayload) :
         e \in RequestErrors}
    \cup {IF HttpResponseErrorIsRequestException
          THEN Raise("ConnectionError",
                     ConnectionErrorText(HttpErrorText(ts, c, b)), NoPayload)
          ELSE Raise("HttpResponseError", HttpErrorText(ts, c, b), NoPayload) :
              c \in BadStatusCodes \ {HTTP_OK}, b \in Bodies}
    \cup {Raise("JSONDecodeError",
                "Expecting value: line 1 column 1 (char 0)", NoPayload)}
    \cup {Return(p) : p \in Payloads}

\* Line 149 with a default of 0 for the timestamp.
GetCurrentDateOrZero(resp, ts) ==
    IF ~resp.isDict
    THEN Raise("AttributeError", "'list' object has no attribute 'get'", 0)
    ELSE Return(IF resp.hasDate THEN resp.current_date ELSE 0)

\* Line 149 without the assignment taking effect.
GetCurrentDateStale(resp, ts) ==
    IF ~resp.isDict
    THEN Raise("AttributeError", "'list' object has no attribute 'get'", 0)
    ELSE Return(ts)

\* response.get('current_date', timestamp) of line 149.
GetCurrentDate(resp, ts) ==
    IF ~resp.isDict
    THEN Raise("AttributeError", "'list' object has no attribute 'get'", 0)
    ELSE Return(IF resp.hasDate THEN resp.current_date ELSE ts)

\* check_response without its checks of the homeworks key.
check_response_unchecked(resp) ==
    IF ~resp.isDict
    THEN Raise("TypeError", "Otvet API ne javljatesja slovarem!", <<>>)
    ELSE IF ~resp.hasDate
    THEN Raise("KeyError", "Net nuzhnogo kljucha current_date v otvete API!", <<>>)
    ELSE Return(resp.homeworks)

\* check_response accepting a response that has no current_date.
check_response_no_date(resp) ==
    IF ~resp.isDict
    THEN Raise("TypeError", "Otvet API ne javljatesja slovarem!", <<>>)
    ELSE IF ~resp.hasHomeworks
    THEN Raise("KeyError", "Net nuzhnogo kljucha homeworks v otvete API!", <<>>)
    ELSE IF ~resp.homeworksIsList
    THEN Raise("TypeError",
               "Format dannyh po kljuchu \"homeworks\", ne javljaetsja spiskom!", <<>>)
    ELSE Return(resp.homeworks)

\* check_response(response).
check_response(resp) ==
    IF ~resp.isDict
    THEN Raise("TypeError", "Otvet API ne javljatesja slovarem!", <<>>)
    ELSE IF ~resp.hasHomeworks
    THEN Raise("KeyError", "Net nuzhnogo kljucha homeworks v otvete API!", <<>>)
    ELSE IF ~resp.hasDate
    THEN Raise("KeyError", "Net nuzhnogo kljucha current_date v otvete API!", <<>>)
    ELSE IF ~resp.homeworksIsList
    THEN Raise("TypeError",
               "Format dannyh po kljuchu \"homeworks\", ne javljaetsja spiskom!", <<>>)
    ELSE Return(resp.homeworks)

StatusMessage(homework_name, verdict) ==
    "Izmenilsja status proverki raboty \"" \o homework_name \o "\". "
    \o verdict

\* parse_status(homework).
parse_status(homework) ==
    IF ~homework.hasName
    THEN Raise("KeyError", "V otvete API net kljucha \"homework_name\".", "")
    ELSE IF ~homework.hasStatus
    THEN Raise("KeyError", "V otvete API otsutstuet kljuch \"status\".", "")
    ELSE IF homework.status \notin DOMAIN HOMEWORK_VERDICTS
    THEN Raise("StatusUnknown",
               "Neizvestnyj status domashnej raboty: " \o homework.status, "")
    ELSE Return(StatusMessage(homework.homework_name,
                              HOMEWORK_VERDICTS[homework.status]))

TwoDigits(n) == IF n < 10 THEN "0" \o ToString(n) ELSE ToString(n)

\* str(datetime.fromtimestamp(ts)) cut to the minute.
fromtimestamp_minutes(ts) ==
    "1970-01-01 " \o TwoDigits(ts \div 3600) \o ":"
    \o TwoDigits((ts \div 60) % 60)

\* str(datetime.fromtimestamp(ts)), for a timestamp within the first day
\* of the epoch, in UTC.
fromtimestamp(ts) ==
    "1970-01-01 " \o TwoDigits(ts \div 3600) \o ":"
    \o TwoDigits((ts \div 60) % 60) \o ":" \o TwoDigits(ts % 60)

\* Lines 152-160 without the else branch: homeworks[0] of an empty list.
NoChangeMessageIndexError(ts) ==
    Raise("IndexError", "list index out of range", "")

\* The else branch of lines 156-160; fromtimestamp(None) is a TypeError.
NoChangeMessage(ts) ==
    IF ts = NullDate
    THEN Raise("TypeError", "an integer is required (got type NoneType)", "")
    ELSE Return("Za period ot " \o fromtimestamp(ts) \o "do nastojashhego"
                \o " momenta izmenenija statusa domashnej raboty net.")

\* The message of line 168.
FailureMessage(text) == "Sboj v rabote programmy: " \o text

\* The guards without the comparison.
IsNewStatusAlways(text, last) == TRUE
IsNewFailureAlways(text, last) == TRUE

\* The guard of line 161.
IsNewStatus(text, last) == text # last

\* The guard of line 170.
IsNewFailure(text, last) == text # last

\* send_message(bot, message): bot.send_message succeeds, or raises a
\* telegram error that is re-raised as TelegramError.
send_message(text) ==
    {Return(text)}
    \cup {Raise("TelegramError",
                "Ne udalos' otpravit' soobshhenie iz-za oshibki " \o e, "") :
              e \in SendErrors}

(* ------------------------------- main() ------------------------------ *)

Env == [PRACTICUM_TOKEN : EnvValues, TELEGRAM_TOKEN : EnvValues,
        TELEGRAM_CHAT_ID : EnvValues]

\* The module is loaded: the environment is read, main() has not run.
Init ==
    /\ env \in Env
    /\ pc = "main"
    /\ timestamp = 0
    /\ old_status_homework = ""
    /\ response = NoPayload
    /\ homeworks = <<>>
    /\ message = None
    /\ error = NoError
    /\ raised = FALSE
    /\ cyc = NewCycle(FALSE, 0, "")
    /\ prev = Summary(NewCycle(FALSE, 0, ""))

\* Lines 138-141: a credential is missing, sys.exit(message).
MainExit ==
    /\ pc = "main"
    /\ ~check_tokens
    /\ pc' = "exit"
    /\ UNCHANGED <<env, timestamp, old_status_homework, response, homeworks,
                   message, error, raised, cyc, prev>>

\* Lines 142-144: the bot is built, the loop state is initialised.
MainStart ==
    /\ pc = "main"
    /\ check_tokens
    /\ \E now \in Timestamps : timestamp' = now
    /\ old_status_homework' = ""
    /\ pc' = "fetch"
    /\ UNCHANGED <<env, response, homeworks, message, error, raised, cyc,
                   prev>>

\* The try block is left by an exception: control goes to line 167.
Caught(r) ==
    /\ error' = [kind |-> r.kind, text |-> r.text]
    /\ pc' = "except"

\* Line 148: response = get_api_answer(timestamp).  A cycle begins here.
GetApiAnswer ==
    /\ pc = "fetch"
    /\ prev' = Summary(cyc)
    /\ \E r \in get_api_answer(timestamp) :
          IF r.ok
          THEN /\ response' = r.val
               /\ pc' = "update"
               /\ cyc' = [NewCycle(TRUE, timestamp, old_status_homework) EXCEPT
                              !.fetched = "ok",
                              !.isDict = r.val.isDict,
                              !.hasDate = r.val.hasDate,
                              !.date = r.val.current_date]
               /\ UNCHANGED error
          ELSE /\ Caught(r)
               /\ cyc' = [NewCycle(TRUE, timestamp, old_status_homework)
                              EXCEPT !.fetched = "err"]
               /\ UNCHANGED response
    /\ UNCHANGED <<env, timestamp, old_status_homework, homeworks, message,
                   raised>>

\* Line 149: timestamp = response.get('current_date', timestamp).
UpdateTimestamp ==
    /\ pc = "update"
    /\ LET r == GetCurrentDate(response, timestamp) IN
          IF r.ok
          THEN /\ timestamp' = r.val
               /\ pc' = "check"
               /\ UNCHANGED error
          ELSE /\ Caught(r)
               /\ UNCHANGED timestamp
    /\ UNCHANGED <<env, old_status_homework, response, homeworks, message,
                   raised, cyc, prev>>

\* Line 150: homeworks = check_response(response).
CheckResponse ==
    /\ pc = "check"
    /\ LET r == check_response(response) IN
          IF r.ok
          THEN /\ homeworks' = r.val
               /\ pc' = "build"
               /\ cyc' = [cyc EXCEPT !.checked = "ok"]
               /\ UNCHANGED error
          ELSE /\ Caught(r)
               /\ cyc' = [cyc EXCEPT !.checked = "err"]
               /\ UNCHANGED homeworks
    /\ UNCHANGED <<env, timestamp, old_status_homework, response, message,
                   raised, prev>>

\* The try block has built its message: control goes to line 161.
Built(r) ==
    /\ message' = r.val
    /\ pc' = "notify"

\* Line 153 taking the last record of the list.
LastRecord(list) == list[Len(list)]

\* Line 153: homeworks[0].
FirstRecord(list) == list[1]

\* Lines 152-155: the list is not empty, its first record is parsed.
ParseStatus ==
    /\ pc = "build"
    /\ homeworks # <<>>
    /\ LET homework == FirstRecord(homeworks)
           r == parse_status(homework) IN
          IF r.ok
          THEN /\ Built(r)
               /\ cyc' = [cyc EXCEPT !.parsed = Append(@, homework),
                                      !.produced = r.val]
               /\ UNCHANGED error
          ELSE /\ Caught(r)
               /\ cyc' = [cyc EXCEPT !.parsed = Append(@, homework)]
               /\ UNCHANGED message
    /\ UNCHANGED <<env, timestamp, old_status_homework, response, homeworks,
                   raised, prev>>

\* Lines 156-160: the list is empty, the "no change" message is built.
NoNewStatus ==
    /\ pc = "build"
    /\ homeworks = <<>>
    /\ LET r == NoChangeMessage(timestamp) IN
          IF r.ok
          THEN /\ Built(r)
               /\ cyc' = [cyc EXCEPT !.produced = r.val]
               /\ UNCHANGED error
          ELSE /\ Caught(r)
               /\ UNCHANGED <<message, cyc>>
    /\ UNCHANGED <<env, timestamp, old_status_homework, response, homeworks,
                   raised, prev>>

\* The sleep at the end of the try block instead of in a finally clause.
AfterExceptNoFinally == "fetch"

\* The try block running on into the except clause.
AfterTryIntoExcept == "except"

\* Where control goes when the try block, or the except clause, ends:
\* to the finally clause.
AfterTry == "sleep"
AfterExcept == "sleep"

\* Lines 162-163 and 171-172 with the assignment before the call, and
\* without the assignment.
AfterSendAlways(r, text, last) == text
AfterSendNever(r, text, last) == last

\* old_status_homework after lines 162-163 (and 171-172): the assignment
\* is reached only if send_message returned.
AfterSend(r, text, last) == IF r.ok THEN text ELSE last

\* Lines 161-163: the message is new; it is sent and, if the send
\* returned, remembered.
SendStatus ==
    /\ pc = "notify"
    /\ IsNewStatus(message, old_status_homework)
    /\ \E r \in send_message(message) :
          /\ cyc' = [cyc EXCEPT !.calls = Append(@, Call(message, r.ok, FALSE))]
          /\ old_status_homework' = AfterSend(r, message, old_status_homework)
          /\ IF r.ok
             THEN /\ pc' = AfterTry
                  /\ UNCHANGED error
             ELSE Caught(r)
    /\ UNCHANGED <<env, timestamp, response, homeworks, message, raised,
                   prev>>

\* Lines 164-165: the message was the last one sent.
SkipStatus ==
    /\ pc = "notify"
    /\ ~IsNewStatus(message, old_status_homework)
    /\ pc' = AfterTry
    /\ UNCHANGED <<env, timestamp, old_status_homework, response, homeworks,
                   message, error, raised, cyc, prev>>

\* Lines 167-169: the except clause builds the failure message.
Except ==
    /\ pc = "except"
    /\ message' = FailureMessage(error.text)
    /\ cyc' = [cyc EXCEPT !.failure = error,
                           !.notice = FailureMessage(error.text)]
    /\ pc' = "report"
    /\ UNCHANGED <<env, timestamp, old_status_homework, response, homeworks,
                   error, raised, prev>>

\* Lines 170-172: the failure message is new; it is sent.  An exception
\* of this send_message is raised inside the except clause: nothing
\* catches it, so it leaves main() once the finally clause has run.
SendFailure ==
    /\ pc = "report"
    /\ IsNewFailure(message, old_status_homework)
    /\ \E r \in send_message(message) :
          /\ cyc' = [cyc EXCEPT !.calls = Append(@, Call(message, r.ok, TRUE))]
          /\ old_status_homework' = AfterSend(r, message, old_status_homework)
          /\ IF r.ok
             THEN UNCHANGED <<error, raised>>
             ELSE /\ error' = [kind |-> r.kind, text |-> r.text]
                  /\ raised' = TRUE
    /\ pc' = AfterExcept
    /\ UNCHANGED <<env, timestamp, response, homeworks, message, prev>>

\* Lines 173-175: the failure message was the last one sent.
SkipFailure ==
    /\ pc = "report"
    /\ ~IsNewFailure(message, old_status_homework)
    /\ pc' = AfterExcept
    /\ UNCHANGED <<env, timestamp, old_status_homework, response, homeworks,
                   message, error, raised, cyc, prev>>

\* Where control goes when the finally clause ends: to the next
\* iteration, or out of main() with the exception that is propagating.
AfterFinally == IF raised THEN "crash" ELSE "fetch"

\* Lines 177-178: finally, time.sleep(RETRY_PERIOD).  The locals of the
\* iteration are dead from here on: each is assigned before its next use.
Sleep ==
    /\ pc = "sleep"
    /\ cyc' = [cyc EXCEPT !.sleeps = Append(@, RETRY_PERIOD)]
    /\ pc' = AfterFinally
    /\ response' = NoPayload
    /\ homeworks' = <<>>
    /\ message' = None
    /\ error' = IF raised THEN error ELSE NoError
    /\ UNCHANGED <<env, timestamp, old_status_homework, raised, prev>>

Next ==
    \/ MainExit
    \/ MainStart
    \/ GetApiAnswer
    \/ UpdateTimestamp
    \/ CheckResponse
    \/ ParseStatus
    \/ NoNewStatus
    \/ SendStatus
    \/ SkipStatus
    \/ Except
    \/ SendFailure
    \/ SkipFailure
    \/ Sleep

Spec == Init /\ [][Next]_vars

(* ----------------------- check_response on its own ------------------- *)

\* check_response is about to be called with some parsed payload, a
\* mapping or not.
ValidatorInit ==
    /\ env = [PRACTICUM_TOKEN |-> "secret", TELEGRAM_TOKEN |-> "secret",
              TELEGRAM_CHAT_ID |-> "secret"]
    /\ pc = "call"
    /\ timestamp = 0
    /\ old_status_homework = ""
    /\ response \in Payloads
    /\ homeworks = <<>>
    /\ message = None
    /\ error = NoError
    /\ raised = FALSE
    /\ cyc = NewCycle(FALSE, 0, "")
    /\ prev = Summary(NewCycle(FALSE, 0, ""))

\* Lines 78-104: the call returns the list or raises.
CallCheckResponse ==
    /\ pc = "call"
    /\ LET r == check_response(response) IN
          IF r.ok
          THEN /\ homeworks' = r.val
               /\ pc' = "returned"
               /\ UNCHANGED error
          ELSE /\ error' = [kind |-> r.kind, text |-> r.text]
               /\ pc' = "raised"
               /\ UNCHANGED homeworks
    /\ UNCHANGED <<env, timestamp, old_status_homework, response, message,
                   raised, cyc, prev>>

ValidatorSpec == ValidatorInit /\ [][CallCheckResponse]_vars

(* ------------------------------ properties ---------------------------- *)

\* The cycle in the log has run its finally clause.
CycleOver == cyc.ran /\ cyc.sleeps # <<>>

\* The send_message calls of a logged cycle made by the try block, and
\* those made by the except clause.
StatusCalls(c) == SelectSeq(c.calls, LAMBDA call : ~call.handler)
FailureCalls(c) == SelectSeq(c.calls, LAMBDA call : call.handler)

AllCredentialsSet ==
    /\ env.PRACTICUM_TOKEN \notin {None, ""}
    /\ env.TELEGRAM_TOKEN \notin {None, ""}
    /\ env.TELEGRAM_CHAT_ID \notin {None, ""}

\* C1: once the credential check has passed the loop has no terminal
\* state: main() is never left, and every cycle's sleep is followed by
\* another fetch, whatever fetch, validation, mapping and the sends did.
C1_NoTerminalState ==
    AllCredentialsSet =>
        /\ pc # "crash"
        /\ CycleOver => pc = "fetch"

\* C9: with a credential absent or empty the process stays before the
\* loop (it can only exit): no fetch, no send_message call and no sleep
\* ever happens; the loop is entered only with all three non-empty.
C9_MissingCredentialStopsAll ==
    /\ ~AllCredentialsSet =>
          /\ pc \in {"main", "exit"}
          /\ ~check_tokens
          /\ ~cyc.ran /\ cyc.fetched = "no"
          /\ cyc.calls = <<>> /\ cyc.sleeps = <<>>
    /\ pc \notin {"main", "exit"} => AllCredentialsSet
    /\ pc = "exit" => ~AllCredentialsSet

\* The process has exited on an empty (not absent) chat identifier.
C9_Witness ==
    /\ pc = "exit"
    /\ env.PRACTICUM_TOKEN = "secret"
    /\ env.TELEGRAM_TOKEN = "secret"
    /\ env.TELEGRAM_CHAT_ID = ""

\* How far main() is through a cycle: the steps of the try block, the
\* except clause, the finally clause, and past the cycle.
Rank(at) ==
    CASE at = "update" -> 1
      [] at = "check" -> 2
      [] at = "build" -> 3
      [] at = "notify" -> 4
      [] at = "except" -> 5
      [] at = "report" -> 6
      [] at = "sleep" -> 7
      [] OTHER -> 8

\* A cycle sleeps at most once, for 600 seconds; nothing of the cycle
\* follows its sleep; a fetch begins (or main() is left) only when the
\* cycle before has slept; and a cycle that has not slept can take a step.
C10_SleepInv ==
    /\ cyc.sleeps \in {<<>>, <<600>>}
    /\ cyc.sleeps # <<>> => pc \in {"fetch", "crash"}
    /\ (cyc.ran /\ pc \in {"fetch", "crash"}) => cyc.sleeps = <<600>>
    /\ (cyc.ran /\ Rank(pc) < 8) => (cyc.sleeps = <<>> /\ ENABLED Next)

\* Each step of a cycle moves it on towards its sleep, and only the sleep
\* ends it.
C10_Progress ==
    Rank(pc) < 8 =>
        /\ Rank(pc') > Rank(pc)
        /\ Rank(pc') = 8 <=> pc = "sleep"
        /\ pc = "sleep" => cyc'.sleeps = <<600>>

\* C10: every cycle, however it went, executes exactly one sleep of the
\* fixed period after its fetch/validate/notify steps (each step leads on
\* to the sleep, none is stuck, and only the sleep ends the cycle), and no
\* two fetches occur without a sleep between them.
C10_OneSleepPerCycle == []C10_SleepInv /\ [][C10_Progress]_vars

\* A cycle that failed, skipped the failure notice and has slept.
C10_Witness ==
    /\ CycleOver
    /\ pc = "fetch"
    /\ cyc.notice # None
    /\ cyc.calls = <<>>

\* The text parse_status is to return for a name and a recognized key.
ExpectedStatusText(name, status) ==
    "Izmenilsja status proverki raboty \"" \o name \o "\". " \o
    CASE status = "approved" ->
             "Rabota proverena: rev'jueru vsjo ponravilos'. Ura!"
      [] status = "reviewing" -> "Rabota vzjata na proverku rev'juerom."
      [] status = "rejected" ->
             "Rabota proverena: u rev'juera est' zamechanija."

\* The status values for which parse_status returns a message.
RecognizedStatuses ==
    {s \in Statuses : parse_status(Homework(TRUE, "hw1", TRUE, s)).ok}

\* What C4 says of a cycle that handed a record with both keys to
\* parse_status, given the set of recognized keys: a recognized status
\* gives the paired text, any other status an unknown-status error and
\* no message.
C4_Mapping(keys) ==
    cyc.parsed # <<>> =>
        LET h == cyc.parsed[1] IN
        (h.hasName /\ h.hasStatus) =>
            IF h.status \in keys
            THEN /\ cyc.produced = ExpectedStatusText(h.homework_name, h.status)
                 /\ pc = "notify" => message = cyc.produced
            ELSE /\ cyc.produced = None
                 /\ pc = "except" => error.kind = "StatusUnknown"
                 /\ cyc.notice # None => cyc.failure.kind = "StatusUnknown"

\* C4 (as claimed): parse_status recognizes a closed set of four status
\* keys, returns the paired text for each and fails for every other value.
C4_FourKeys ==
    cyc.parsed # <<>> =>
        /\ Cardinality(RecognizedStatuses) = 4
        /\ C4_Mapping(RecognizedStatuses)

\* C4 (amended): parse_status recognizes a closed set of three status
\* keys (approved, reviewing, rejected), returns the paired text for each
\* and fails with an unknown-status error, returning no message, for
\* every other status value.
C4_ThreeKeys ==
    cyc.parsed # <<>> =>
        /\ RecognizedStatuses = {"approved", "reviewing", "rejected"}
        /\ C4_Mapping({"approved", "reviewing", "rejected"})

\* parse_status has returned the text for hw2 under review.
C4_Witness ==
    /\ pc = "notify"
    /\ cyc.parsed = <<Homework(TRUE, "hw2", TRUE, "reviewing")>>
    /\ message = ExpectedStatusText("hw2", "reviewing")

\* C5: validation precedes status mapping: parse_status is called only
\* after check_response returned, and in a cycle whose fetched mapping
\* lacks the key homeworks, or holds no list under it, check_response
\* fails and parse_status is not called.
C5_ValidationBeforeMapping ==
    /\ cyc.parsed # <<>> => cyc.checked = "ok"
    /\ pc \in {"build", "notify"} => cyc.checked = "ok"
    /\ (/\ cyc.fetched = "ok"
        /\ response.isDict
        /\ ~response.hasHomeworks \/ ~response.homeworksIsList
        /\ pc \notin {"update", "check"})
       => /\ cyc.checked = "err"
          /\ cyc.parsed = <<>>
          /\ cyc.produced = None

\* A cycle whose response had current_date but no homeworks key is in its
\* finally clause.
C5_Witness ==
    /\ pc = "sleep"
    /\ response.isDict /\ response.hasDate /\ ~response.hasHomeworks
    /\ cyc.checked = "err"
    /\ cyc.parsed = <<>>

\* C6: in a cycle whose fetch failed, or whose response does not contain
\* current_date, the poll window keeps the value it had when the cycle
\* began, up to the next fetch.
C6_WindowUnchanged ==
    (cyc.ran /\ (cyc.fetched = "err" \/ ~cyc.hasDate)) =>
        timestamp = cyc.ts0

\* A cycle whose response was a mapping without current_date has slept,
\* and the next fetch is due with the window it began with.
C6_Witness ==
    /\ CycleOver /\ pc = "fetch"
    /\ cyc.fetched = "ok" /\ cyc.isDict /\ ~cyc.hasDate
    /\ cyc.ts0 = 1 /\ timestamp = 1

\* The previous cycle and the cycle that has just slept both built a
\* message in their try block.
BothProduced ==
    /\ prev.ran /\ prev.produced # None
    /\ CycleOver /\ cyc.produced # None

\* The logged cycle made exactly one send_message call in its try block
\* (resp. its except clause), with the text given.
OneStatusCall(c, text) ==
    Len(StatusCalls(c)) = 1 /\ StatusCalls(c)[1].text = text
OneFailureCall(c, text) ==
    Len(FailureCalls(c)) = 1 /\ FailureCalls(c)[1].text = text

\* Two consecutive cycles with the same text, the first sent with success:
\* the second makes no send_message call.
C2_SameTextOneCall ==
    (BothProduced /\ prev.produced = cyc.produced
                  /\ prev.calls = <<Call(prev.produced, TRUE, FALSE)>>)
        => cyc.calls = <<>>

\* C2 (as claimed): same text twice in a row, the first sent: no call in
\* the second cycle; different texts in a row: each of the two cycles
\* makes a send_message call.
C2_DedupTwoCalls ==
    /\ C2_SameTextOneCall
    /\ (BothProduced /\ prev.produced # cyc.produced)
          => /\ Len(StatusCalls(prev)) = 1
             /\ Len(StatusCalls(cyc)) = 1

\* C2 (amended): same text twice in a row, the first sent: no call in the
\* second cycle; different texts in a row: the second cycle makes a
\* send_message call with its text; and any cycle that builds a message
\* (the first of such a pair too) calls send_message with it exactly when
\* the text differs from the last notification it began with.
C2_Dedup ==
    /\ C2_SameTextOneCall
    /\ (BothProduced /\ prev.produced # cyc.produced)
          => OneStatusCall(cyc, cyc.produced)
    /\ (cyc.ran /\ cyc.produced # None /\ pc # "notify")
          => IF cyc.produced # cyc.last0
             THEN OneStatusCall(cyc, cyc.produced)
             ELSE cyc.calls = <<>>

\* The same status text came twice in a row: sent the first time, skipped
\* the second.
C2_Witness ==
    /\ BothProduced
    /\ prev.produced = cyc.produced
    /\ prev.calls = <<Call(prev.produced, TRUE, FALSE)>>
    /\ cyc.parsed # <<>>
    /\ cyc.calls = <<>>

\* Something raised in the try block of the logged cycle.
Raised(c) ==
    \/ c.fetched = "err"
    \/ c.fetched = "ok" /\ ~c.isDict
    \/ c.checked = "err"
    \/ c.checked = "ok" /\ c.produced = None
    \/ \E i \in 1..Len(c.calls) : ~c.calls[i].handler /\ ~c.calls[i].ok

\* C3: when a step of the cycle raises, the except clause builds the
\* failure message and calls send_message with it if and only if it
\* differs from the last notification; so in a run of consecutive cycles
\* failing with the same text the first cycle sends the one failure
\* notification and the following ones send none.
C3_FailureDedup ==
    /\ (CycleOver /\ Raised(cyc)) => cyc.notice # None
    /\ cyc.notice # None =>
          /\ cyc.notice = "Sboj v rabote programmy: " \o cyc.failure.text
          /\ pc = "report" => old_status_homework = cyc.last0
          /\ pc # "report" =>
                IF cyc.notice # cyc.last0
                THEN OneFailureCall(cyc, cyc.notice)
                ELSE FailureCalls(cyc) = <<>>
    /\ (CycleOver /\ cyc.notice # None) =>
          IF prev.notice = cyc.notice
          THEN FailureCalls(cyc) = <<>>
          ELSE OneFailureCall(cyc, cyc.notice)

\* HTTP 503 with the same body twice in a row: notified the first time,
\* skipped the second.
C3_Witness ==
    /\ CycleOver /\ pc = "fetch"
    /\ cyc.failure.kind = "HttpResponseError"
    /\ prev.notice = cyc.notice
    /\ prev.calls = <<Call(cyc.notice, TRUE, TRUE)>>
    /\ cyc.calls = <<>>

\* In a cycle whose response is a mapping with current_date, the poll
\* window is that current_date from line 149 on, whatever fails later.
C7_WindowAdvanced ==
    (cyc.fetched = "ok" /\ cyc.isDict /\ cyc.hasDate /\ pc # "update")
        => timestamp = cyc.date

\* C7 (as claimed): the poll window is advanced before validation and is
\* never rolled back, and a cycle that fails after the advance still
\* makes a failure notification attempt.
C7_AdvanceAndNotify ==
    /\ C7_WindowAdvanced
    /\ (CycleOver /\ cyc.isDict /\ cyc.hasDate /\ Raised(cyc))
          => Len(FailureCalls(cyc)) = 1

\* C7 (amended): the poll window is advanced before validation and is
\* never rolled back, and a cycle that fails after the advance still runs
\* the except clause, which attempts the failure notification unless its
\* text equals the last notification.
C7_AdvanceAndHandle ==
    /\ C7_WindowAdvanced
    /\ (CycleOver /\ cyc.isDict /\ cyc.hasDate /\ Raised(cyc))
          => /\ cyc.notice # None
             /\ IF cyc.notice = cyc.last0
                THEN FailureCalls(cyc) = <<>>
                ELSE OneFailureCall(cyc, cyc.notice)

\* A record of unknown status came with a new current_date: the window
\* moved from 0 to 1 and the failure was notified.
C7_Witness ==
    /\ CycleOver
    /\ cyc.ts0 = 0 /\ cyc.date = 1 /\ timestamp = 1
    /\ cyc.failure.kind = "StatusUnknown"
    /\ Len(FailureCalls(cyc)) = 1

\* The "no change" text for a window within the first minute of the epoch.
ExpectedNoChangeText(date) ==
    "Za period ot 1970-01-01 00:00:"
    \o (IF date < 10 THEN "0" ELSE "") \o ToString(date)
    \o "do nastojashhego momenta izmenenija statusa domashnej raboty net."

\* The fetched response is a mapping with an empty homeworks list and an
\* integer current_date.
ValidEmptyResponse ==
    /\ cyc.fetched = "ok"
    /\ response.isDict
    /\ response.hasHomeworks /\ response.homeworksIsList
    /\ response.homeworks = <<>>
    /\ response.hasDate /\ response.current_date \in Nat

\* C8: for a valid response with an empty homeworks list the try block
\* raises nothing before the send: it builds the "no change" message
\* with the window as updated in this cycle, and sends it, or skips it as
\* a duplicate, like any other message.
C8_EmptyListNoChange ==
    (ValidEmptyResponse /\ pc \notin {"update", "check", "build"}) =>
        /\ cyc.parsed = <<>>
        /\ cyc.produced = ExpectedNoChangeText(response.current_date)
        /\ pc = "notify" => message = cyc.produced
        /\ pc # "notify" =>
              IF cyc.produced # cyc.last0
              THEN OneStatusCall(cyc, cyc.produced)
              ELSE cyc.calls = <<>>
        /\ cyc.notice # None =>
              /\ cyc.failure.kind = "TelegramError"
              /\ ~StatusCalls(cyc)[1].ok

\* An empty list came with current_date 1 while the window was 0: the
\* message for window 1 was sent.
C8_Witness ==
    /\ ValidEmptyResponse
    /\ pc = "sleep"
    /\ cyc.ts0 = 0 /\ response.current_date = 1
    /\ cyc.calls = <<Call(ExpectedNoChangeText(1), TRUE, FALSE)>>

\* C11: check_response returns the homeworks list if and only if the
\* response is a mapping with both keys homeworks and current_date and a
\* list under homeworks; otherwise it raises the error of the first
\* failing check, in the order: not a mapping (TypeError), homeworks
\* missing (KeyError), current_date missing (KeyError), homeworks not a
\* list (TypeError).
C11_CheckResponse ==
    /\ pc = "returned" =>
          /\ response.isDict
          /\ response.hasHomeworks /\ response.hasDate
          /\ response.homeworksIsList
          /\ homeworks = response.homeworks
          /\ error = NoError
    /\ pc = "raised" =>
          /\ homeworks = <<>>
          /\ IF ~response.isDict
             THEN error = [kind |-> "TypeError",
                           text |-> "Otvet API ne javljatesja slovarem!"]
             ELSE IF ~response.hasHomeworks
             THEN error = [kind |-> "KeyError",
                           text |-> "'Net nuzhnogo kljucha homeworks v otvete API!'"]
             ELSE IF ~response.hasDate
             THEN error = [kind |-> "KeyError",
                           text |-> "'Net nuzhnogo kljucha current_date v otvete API!'"]
             ELSE /\ ~response.homeworksIsList
                  /\ error.kind = "TypeError"
                  /\ error.text =
                       "Format dannyh po kljuchu \"homeworks\", ne javljaetsja spiskom!"

\* A response with a homeworks list but without current_date was
\* rejected for the missing key.
C11_Witness ==
    /\ pc = "raised"
    /\ response.isDict
    /\ response.hasHomeworks /\ response.homeworksIsList
    /\ response.homeworks # <<>>
    /\ ~response.hasDate
    /\ error.kind = "KeyError"

\* C12: in a cycle whose fetch returns a payload that is not a mapping,
\* the payload reaches check_response and the failure of the cycle is
\* check_response's type-mismatch error, not one of an earlier step.
C12_NonMappingReachesValidator ==
    (cyc.fetched = "ok" /\ ~cyc.isDict) =>
        /\ pc \notin {"update", "check"} => cyc.checked = "err"
        /\ pc = "except" => error.kind = "TypeError"
        /\ cyc.notice # None =>
              /\ cyc.failure.kind = "TypeError"
              /\ cyc.failure.text = "Otvet API ne javljatesja slovarem!"

\* The first records a list of the model can have, and what parse_status
\* is to make of one: the message, or None when it is to raise.
ExpectedOfFirst(h) ==
    IF h.hasName /\ h.hasStatus
       /\ h.status \in {"approved", "reviewing", "rejected"}
    THEN ExpectedStatusText(h.homework_name, h.status)
    ELSE None

\* C13: only the first record of a non-empty homeworks list influences a
\* cycle: it alone is handed to parse_status, and the message built, and
\* whether the try block fails before the send, are what the first
\* record alone gives, whatever follows it in the list.
C13_OnlyFirstRecord ==
    /\ Len(cyc.parsed) <= 1
    /\ (pc \in {"notify", "except", "report", "sleep"}
        /\ cyc.checked = "ok" /\ response.homeworks # <<>>)
          => LET first == response.homeworks[1] IN
             /\ cyc.parsed = <<first>>
             /\ cyc.produced = ExpectedOfFirst(first)
             /\ cyc.produced = None => cyc.calls = <<>> \/ cyc.calls[1].handler
             /\ (cyc.produced # None /\ cyc.notice # None)
                   => cyc.failure.kind = "TelegramError"
             /\ \A i \in 1..Len(cyc.calls) :
                   cyc.calls[i].text \in {ExpectedOfFirst(first), cyc.notice}

\* A list whose first record is valid and whose second one has an
\* unknown status: the message of the first was sent, nothing failed.
C13_Witness ==
    /\ pc = "sleep"
    /\ response.homeworks = <<Homework(TRUE, "hw1", TRUE, "approved"),
                               Homework(TRUE, "hw1", TRUE, "bogus")>>
    /\ cyc.calls = <<Call(ExpectedStatusText("hw1", "approved"), TRUE, FALSE)>>
    /\ cyc.notice = None

\* The text of the last send_message call of the logged cycle that
\* returned, or the last notification the cycle began with if none did.
LastDelivered(c) ==
    LET oks == SelectSeq(c.calls, LAMBDA call : call.ok) IN
    IF oks = <<>> THEN c.last0 ELSE oks[Len(oks)].text

\* In every state old_status_homework is the text of the most recent
\* send_message call that returned; it is empty before the first cycle.
C14_LastIsDelivered ==
    /\ old_status_homework = LastDelivered(cyc)
    /\ ~cyc.ran => old_status_homework = ""

\* A step changes old_status_homework only by a send_message call that
\* returned, to the text of that call; a call that raised leaves it as it
\* was; and a cycle begins with what the cycle before left.
C14_Step ==
    /\ Len(cyc'.calls) = Len(cyc.calls) + 1 =>
          LET call == cyc'.calls[Len(cyc'.calls)] IN
          old_status_homework' =
              IF call.ok THEN call.text ELSE old_status_homework
    /\ Len(cyc'.calls) # Len(cyc.calls) + 1 =>
          old_status_homework' = old_status_homework
    /\ pc = "fetch" => cyc'.last0 = old_status_homework

\* C14: last-notification is the empty string until the first successful
\* send, afterwards it always equals the text of the most recent
\* send_message call that succeeded, and a send_message call that fails
\* never changes it.
C14_LastNotification == []C14_LastIsDelivered /\ [][C14_Step]_vars

\* The status send of the cycle failed and the failure notice was
\* delivered: the notice is the last notification.
C14_Witness ==
    /\ pc = "sleep"
    /\ Len(cyc.calls) = 2
    /\ ~cyc.calls[1].ok /\ cyc.calls[2].ok
    /\ cyc.last0 # ""
    /\ old_status_homework = cyc.notice

\* C15: a cycle makes at most two send_message calls and at most one of
\* them succeeds; a call of the except clause carries the failure message
\* and comes only after something raised in the try block; a second call
\* is made only by the except clause, after the first call itself raised;
\* a cycle whose try-block send succeeded makes no further call.
C15_CallsPerCycle ==
    /\ Len(cyc.calls) <= 2
    /\ Len(StatusCalls(cyc)) <= 1 /\ Len(FailureCalls(cyc)) <= 1
    /\ Len(SelectSeq(cyc.calls, LAMBDA call : call.ok)) <= 1
    /\ cyc.calls # <<>> =>
          /\ cyc.calls[1].handler \/ cyc.calls[1].text = cyc.produced
          /\ (~cyc.calls[1].handler /\ cyc.calls[1].ok) => Len(cyc.calls) = 1
    /\ Len(cyc.calls) = 2 =>
          /\ ~cyc.calls[1].handler /\ ~cyc.calls[1].ok
          /\ cyc.calls[2].handler
          /\ cyc.failure.kind = "TelegramError"
    /\ \A i \in 1..Len(cyc.calls) :
          cyc.calls[i].handler =>
              /\ cyc.notice # None
              /\ cyc.calls[i].text = cyc.notice
              /\ cyc.notice = "Sboj v rabote programmy: " \o cyc.failure.text
              /\ cyc.failure # NoError
              /\ cyc.fetched = "err" \/ ~cyc.isDict \/ cyc.checked = "err"
                 \/ (cyc.checked = "ok" /\ cyc.produced = None)
                 \/ (i = 2 /\ ~cyc.calls[1].ok)

\* The status send raised and the except clause then sent the failure
\* message: two calls, one delivered.
C15_Witness ==
    /\ pc = "sleep"
    /\ cyc.parsed # <<>>
    /\ cyc.calls = <<Call(cyc.produced, FALSE, FALSE),
                      Call(cyc.notice, TRUE, TRUE)>>

\* The cycle before and the cycle that has just slept both had a valid
\* response with an empty homeworks list and an integer current_date
\* (that of the cycle before is the window this cycle began with), and
\* every send_message call of the two returned.
TwoEmptyCycles ==
    /\ prev.ran /\ CycleOver
    /\ cyc.ts0 \in Nat /\ cyc.date \in Nat
    /\ prev.produced = NoChangeMessage(cyc.ts0).val
    /\ cyc.checked = "ok" /\ cyc.parsed = <<>> /\ cyc.hasDate
    /\ \A i \in 1..Len(prev.calls) : prev.calls[i].ok
    /\ \A i \in 1..Len(cyc.calls) : cyc.calls[i].ok

C17_FailedSendIsRetried ==
    /\ (cyc.ran /\ pc \in {"except", "report", "sleep", "fetch"}
        /\ cyc.calls # <<>> /\ cyc.calls[1] = Call(cyc.produced, FALSE, FALSE))
          => old_status_homework # cyc.produced
    /\ (prev.ran /\ prev.calls # <<>>
        /\ prev.calls[1] = Call(prev.produced, FALSE, FALSE)
        /\ cyc.produced = prev.produced /\ pc # "notify")
          => /\ cyc.last0 # cyc.produced
             /\ OneStatusCall(cyc, cyc.produced)

\* The send of a status message failed in one cycle; the next cycle built
\* the same text and delivered it.
C17_Witness ==
    /\ CycleOver
    /\ prev.calls # <<>>
    /\ prev.calls[1] = Call(prev.produced, FALSE, FALSE)
    /\ cyc.parsed # <<>>
    /\ cyc.produced = prev.produced
    /\ cyc.calls = <<Call(cyc.produced, TRUE, FALSE)>>

====
